---------------------------- MODULE Spec2Model ----------------------------
(***************************************************************************)
(* Model of src/src/app.ts: the POST "/" handler of the social profile     *)
(* avatar API and its three provider strategies.                           *)
(*                                                                         *)
(* Strings are sequences of one-character strings, so that trim,           *)
(* toLowerCase, template interpolation and URL parsing are computed        *)
(* character by character.  JSON values are records [t, s, n]: the tag,    *)
(* the characters of a string, the number.                                 *)
(***************************************************************************)
EXTENDS Integers, Sequences, FiniteSets

(***************************************************************************)
(* Bounds of the model.                                                    *)
(***************************************************************************)
\* Longest identifier string the environment sends.
MaxLen == 2
\* Requests in flight together in the concurrent specification.
NumRequests == 2

(***************************************************************************)
(* JSON values as the handler sees them in req.body and in provider data.  *)
(***************************************************************************)
JV(t, s, n) == [t |-> t, s |-> s, n |-> n]
\* A key that is not in the object: destructuring yields undefined.
Absent == JV("undefined", <<>>, 0)
JNull == JV("null", <<>>, 0)
JStr(s) == JV("str", s, 0)
JNum(n) == JV("num", <<>>, n)
JBool(b) == JV("bool", <<>>, IF b THEN 1 ELSE 0)
\* An array holding the single string s, e.g. ["github"].
JArr1(s) == JV("arr", s, 1)
\* A plain object, {}.
JObj == JV("obj", <<>>, 0)
\* An object with an own, non-callable "toString" key, e.g. {"toString": 1}.
JObjNoToString == JV("obj", <<>>, 1)

\* JavaScript ToBoolean: what !(x) and if (x) test.
Truthy(v) ==
    CASE v.t = "undefined" -> FALSE
      [] v.t = "null" -> FALSE
      [] v.t = "str" -> Len(v.s) > 0
      [] v.t = "num" -> v.n # 0
      [] v.t = "bool" -> v.n = 1
      [] OTHER -> TRUE

\* A completion: a value returned, or an exception thrown.
Normal(v) == [thrown |-> FALSE, value |-> v]
Throw == [thrown |-> TRUE, value |-> JNull]

(***************************************************************************)
(* String literals of the source.                                         *)
(***************************************************************************)
github == <<"g","i","t","h","u","b">>
gravatar == <<"g","r","a","v","a","t","a","r">>
mastodon == <<"m","a","s","t","o","d","o","n">>
GitHubUrlPrefix == <<"h","t","t","p","s",":","/","/","a","p","i",".","g","i","t","h","u","b",".","c","o","m","/","u","s","e","r","s","/">>
MastodonUrlPrefix == <<"h","t","t","p","s",":","/","/","m","a","s","t","o","d","o","n",".","s","o","c","i","a","l","/","a","p","i","/","v","1","/","a","c","c","o","u","n","t","s","/","l","o","o","k","u","p","?","a","c","c","t","=">>
GravatarUrlPrefix == <<"h","t","t","p","s",":","/","/","g","r","a","v","a","t","a","r",".","c","o","m","/","a","v","a","t","a","r","/">>
GravatarUrlSuffix == <<"?","s","=","4","0","0">>
MsgMissing == "Missing account_type or identifier"
MsgInvalid == "Invalid account_type"
MsgCouldNotFetch == "Could not fetch the profile image"
\* The body of a success response has no message key.
NoMessage == "<no message key>"

\* const accountTypes = ["mastodon", "gravatar", "github"]
accountTypesLiteral == <<JStr(mastodon), JStr(gravatar), JStr(github)>>

(***************************************************************************)
(* Library functions the source calls, computed as the runtime does.       *)
(***************************************************************************)
\* Variant: membership after coercion to a string, as == would compare.
IncludesLoose(list, v) ==
    \E i \in 1..Len(list) : v.t \in {"str", "arr"} /\ list[i].s = v.s
\* Array.prototype.includes: SameValueZero, so a string matches only the
\* same string; no coercion of arrays or other casings.
includes(list, v) == \E i \in 1..Len(list) : list[i] = v

\* White space as String.prototype.trim sees it (the characters in use).
IsWhiteSpace(c) == c \in {" "}

RECURSIVE trimStart(_)
trimStart(s) ==
    IF s # <<>> /\ IsWhiteSpace(Head(s)) THEN trimStart(Tail(s)) ELSE s

RECURSIVE trimEnd(_)
trimEnd(s) ==
    IF s # <<>> /\ IsWhiteSpace(s[Len(s)])
    THEN trimEnd(SubSeq(s, 1, Len(s) - 1))
    ELSE s

\* Variant: trimStart() in place of trim().
trimOnlyStart(s) == trimStart(s)
trim(s) == trimEnd(trimStart(s))

UpperLetters == <<"A","B","C","D","E","F","G","H","I","J","K","L","M","N","O","P","Q","R","S","T","U","V","W","X","Y","Z">>
LowerLetters == <<"a","b","c","d","e","f","g","h","i","j","k","l","m","n","o","p","q","r","s","t","u","v","w","x","y","z">>

toLowerCaseChar(c) ==
    IF \E i \in 1..Len(UpperLetters) : UpperLetters[i] = c
    THEN LowerLetters[CHOOSE i \in 1..Len(UpperLetters) : UpperLetters[i] = c]
    ELSE c

toLowerCase(s) == [i \in 1..Len(s) |-> toLowerCaseChar(s[i])]

\* crypto.createHash("sha256").update(m).digest("hex"): the digest is kept
\* symbolic, a string that names its message, so two digests are equal
\* exactly when their messages are (no collisions).
sha256Hex(m) == <<"sha256hex(">> \o m \o <<")">>

\* ToString of a value interpolated in a template literal.  An array joins
\* its elements; a plain object gives "[object Object]"; an object whose own
\* "toString" is not callable makes ToPrimitive throw a TypeError.
DecimalDigits == <<"0","1","2","3","4","5","6","7","8","9">>
ToStringOf(v) ==
    CASE v.t = "str" -> [thrown |-> FALSE, s |-> v.s]
      [] v.t = "num" -> [thrown |-> FALSE, s |-> <<DecimalDigits[v.n + 1]>>]
      [] v.t = "bool" ->
            [thrown |-> FALSE,
             s |-> IF v.n = 1 THEN <<"t","r","u","e">> ELSE <<"f","a","l","s","e">>]
      [] v.t = "arr" -> [thrown |-> FALSE, s |-> v.s]
      [] v.t = "null" -> [thrown |-> FALSE, s |-> <<"n","u","l","l">>]
      [] v.t = "undefined" ->
            [thrown |-> FALSE, s |-> <<"u","n","d","e","f","i","n","e","d">>]
      [] v.t = "obj" /\ v.n = 0 ->
            [thrown |-> FALSE, s |-> <<"[","o","b","j","e","c","t"," ","O","b","j","e","c","t","]">>]
      [] OTHER -> [thrown |-> TRUE, s |-> <<>>]

\* `${prefix}${username}`
templateLiteral(prefix, username) ==
    LET u == ToStringOf(username)
    IN  IF u.thrown THEN u ELSE [thrown |-> FALSE, s |-> prefix \o u.s]

(***************************************************************************)
(* How fetch reads the URL string it is given (the URL parser, for the     *)
(* https scheme): the host ends at the first "/", "?" or "#"; the path     *)
(* ends at the first "?" or "#"; the query ends at the first "#".  The     *)
(* parts are kept as written, without percent-encoding.                    *)
(***************************************************************************)
\* Index of the first character of s, from i on, that is in set; Len(s) + 1
\* when there is none.
IndexOfAny(s, set, i) ==
    IF \E j \in i..Len(s) : s[j] \in set
    THEN CHOOSE j \in i..Len(s) :
            s[j] \in set /\ \A k \in i..(j - 1) : s[k] \notin set
    ELSE Len(s) + 1

RECURSIVE split(_, _)
split(s, sep) ==
    LET j == IndexOfAny(s, {sep}, 1)
    IN  IF j > Len(s)
        THEN <<s>>
        ELSE <<SubSeq(s, 1, j - 1)>> \o split(SubSeq(s, j + 1, Len(s)), sep)

\* Trailing spaces of the input are stripped before parsing.
RECURSIVE stripTrailingSpaces(_)
stripTrailingSpaces(s) ==
    IF s # <<>> /\ s[Len(s)] = " "
    THEN stripTrailingSpaces(SubSeq(s, 1, Len(s) - 1))
    ELSE s

\* name=value of one query parameter.
queryParam(p) ==
    LET e == IndexOfAny(p, {"="}, 1)
    IN  [name |-> SubSeq(p, 1, e - 1), value |-> SubSeq(p, e + 1, Len(p))]

\* The parameters of a query string: split at "&", empty pieces skipped.
searchParams(query) ==
    LET pieces == split(query, "&")
        kept == SelectSeq(pieces, LAMBDA p : p # <<>>)
    IN  [i \in 1..Len(kept) |-> queryParam(kept[i])]

\* A ".." segment removes the segment before it and a "." segment is dropped;
\* either one, when it is the last, leaves an empty last segment.
RECURSIVE removeDotSegments(_, _, _)
removeDotSegments(segs, i, acc) ==
    IF i > Len(segs) THEN acc
    ELSE LET atEnd == IF i = Len(segs) THEN << <<>> >> ELSE <<>>
         IN  IF segs[i] = <<".", ".">>
             THEN removeDotSegments(segs, i + 1,
                    (IF acc = <<>> THEN <<>> ELSE SubSeq(acc, 1, Len(acc) - 1))
                        \o atEnd)
             ELSE IF segs[i] = <<".">>
             THEN removeDotSegments(segs, i + 1, acc \o atEnd)
             ELSE removeDotSegments(segs, i + 1, Append(acc, segs[i]))

\* Length of "https://".
SchemeLen == 8
parseUrl(input) ==
    LET u == stripTrailingSpaces(input)
        hostStart == SchemeLen + 1
        pathStart == IndexOfAny(u, {"/", "?", "#"}, hostStart)
        pathEnd == IndexOfAny(u, {"?", "#"}, pathStart)
        fragStart == IndexOfAny(u, {"#"}, pathEnd)
        rawPath == SubSeq(u, pathStart, pathEnd - 1)
        hasQuery == pathEnd <= Len(u) /\ u[pathEnd] = "?"
    IN  [ host |-> SubSeq(u, hostStart, pathStart - 1),
          path |-> IF rawPath = <<>>
                   THEN <<>>
                   ELSE removeDotSegments(split(Tail(rawPath), "/"), 1, <<>>),
          hasQuery |-> hasQuery,
          params |-> IF hasQuery
                     THEN searchParams(SubSeq(u, pathEnd + 1, fragStart - 1))
                     ELSE <<>>,
          hasFragment |-> fragStart <= Len(u) ]

(***************************************************************************)
(* The strategies.                                                         *)
(***************************************************************************)
\* getGravatarImage: email.trim() is a TypeError on anything but a string.
getGravatarImage(email) ==
    IF email.t # "str"
    THEN Throw
    ELSE LET normalizedEmail == toLowerCase(trim(email.s))
             hash == sha256Hex(normalizedEmail)
         IN  Normal(JStr(GravatarUrlPrefix \o hash \o GravatarUrlSuffix))

\* Variant: the two strategies read each other's field.
ExpectedFieldSwapped(strategy) ==
    IF strategy = "github" THEN "avatar" ELSE "avatar_url"
\* The field each network strategy reads from the provider's data.
ExpectedField(strategy) ==
    IF strategy = "github" THEN "avatar_url" ELSE "avatar"

\* data.<key>: a TypeError on null, undefined on a primitive or an array.
GetProperty(data, key) ==
    IF data.t = "null" THEN Throw
    ELSE IF data.t = "obj" THEN Normal(data[key])
    ELSE Normal(Absent)

\* .then((data) => { if (data.avatar_url) return data.avatar_url; return null; })
thenData(data, key) ==
    LET p == GetProperty(data, key)
    IN  IF p.thrown THEN Throw
        ELSE IF Truthy(p.value) THEN Normal(p.value)
        ELSE Normal(JNull)

\* Variant: no catch, the rejection reaches the awaiting handler.
tryCatchNone(c) == c
\* try { return await ... } catch (_error) { return null; }
tryCatch(c) == IF c.thrown THEN Normal(JNull) ELSE c

(***************************************************************************)
(* The handler's validation and responses.                                 *)
(***************************************************************************)
\* Variant: !(account_type || identifier).
MissingFieldsOr(account_type, identifier) ==
    ~(Truthy(account_type) \/ Truthy(identifier))
\* !(account_type && identifier)
MissingFields(account_type, identifier) ==
    ~(Truthy(account_type) /\ Truthy(identifier))

StatusOk == 200
StatusBadRequest == 400

\* res.status(400).json({ success: false, message })
Bad(message) ==
    [status |-> StatusBadRequest, success |-> FALSE, message |-> message, photo |-> Absent]
\* res.status(200).json({ success: true, photo })
Ok(p) ==
    [status |-> StatusOk, success |-> TRUE, message |-> NoMessage, photo |-> p]

\* if (!photo) 400 "Could not fetch the profile image", else 200.
Finalization(p) == IF ~Truthy(p) THEN Bad(MsgCouldNotFetch) ELSE Ok(p)

(***************************************************************************)
(* What the environment sends: request bodies and provider replies.        *)
(***************************************************************************)
\* Characters of identifier strings: a letter in both cases, white space,
\* and the characters that delimit the parts of a URL.
IdChars == {"a", "A", " ", "/", ".", "?", "&", "#"}
StringsUpTo(n) == UNION {[1..k -> IdChars] : k \in 0..n}

AccountTypeValues ==
    { Absent, JNull, JStr(<<>>), JNum(0), JNum(1), JObj,
      JStr(github), JStr(gravatar), JStr(mastodon),
      JStr(<<"b","l","u","e","s","k","y">>), JStr(<<"G","i","t","H","u","b">>),
      JArr1(github) }

IdentifierValues ==
    {JStr(s) : s \in StringsUpTo(MaxLen)}
        \cup { Absent, JNull, JNum(0), JNum(7), JBool(FALSE), JBool(TRUE),
               JArr1(<<"a">>), JObj, JObjNoToString }

Bodies == [account_type : AccountTypeValues, identifier : IdentifierValues]

\* A provider's data: the parsed JSON payload, with the two keys of interest
\* when it is an object.
avatarUrl == <<"h","t","t","p","s",":","/","/","x","/","a",".","p","n","g">>
FieldValues == {Absent, JNull, JStr(<<>>), JStr(avatarUrl), JNum(5)}
Data(t, avatar_url, avatar) == [t |-> t, avatar_url |-> avatar_url, avatar |-> avatar]
NoData == Data("none", Absent, Absent)
Payloads ==
    {Data("obj", u, a) : u \in FieldValues, a \in FieldValues}
        \cup {Data("null", Absent, Absent), Data("num", Absent, Absent),
              Data("str", Absent, Absent)}

\* What becomes of an outbound call: it never settles, fetch rejects, the
\* body is not JSON, or the body parses to a payload.
Reply(k, data) == [k |-> k, data |-> data]
Replies ==
    {Reply("hang", NoData), Reply("reject", NoData), Reply("notjson", NoData)}
        \cup {Reply("json", d) : d \in Payloads}

\* The smaller world of the concurrent specification.
SmallBodies ==
    [account_type : {JStr(github), JStr(gravatar), JStr(mastodon)},
     identifier : {JStr(<<"a">>), JNum(7)}]
SmallReplies ==
    { Reply("hang", NoData), Reply("reject", NoData),
      Reply("json", Data("obj", JStr(avatarUrl), JStr(avatarUrl))) }

(***************************************************************************)
(* State.                                                                  *)
(***************************************************************************)
VARIABLES
    accountTypes,   \* the module-level array of supported account types
    req,            \* req[r]: the body of request r
    provider,       \* provider[r]: what becomes of r's outbound call
    pc,             \* pc[r]: where the handler of r stands
    settled,        \* settled[r]: completion of the strategy's promise
    photo,          \* photo[r]: the handler's local variable
    resp,           \* resp[r]: the responses the handler sent, in order
    calls,          \* calls[r]: the URLs fetch was called with, in order
    ran             \* ran[r]: the strategies invoked, in order

vars == <<accountTypes, req, provider, pc, settled, photo, resp, calls, ran>>

Requests == DOMAIN req

InitWith(R, B, P) ==
    /\ accountTypes = accountTypesLiteral
    /\ req \in [R -> B]
    /\ provider \in [R -> P]
    /\ pc = [r \in R |-> "received"]
    /\ settled = [r \in R |-> Normal(Absent)]
    /\ photo = [r \in R |-> JNull]
    /\ resp = [r \in R |-> <<>>]
    /\ calls = [r \in R |-> <<>>]
    /\ ran = [r \in R |-> <<>>]

Init == InitWith(1..1, Bodies, Replies)
InitConc == InitWith(1..NumRequests, SmallBodies, SmallReplies)

(***************************************************************************)
(* The handler, one action per run between two suspension points.          *)
(***************************************************************************)
\* return res.status(..).json(..)
Send(r, m) ==
    /\ resp' = [resp EXCEPT ![r] = Append(@, m)]
    /\ pc' = [pc EXCEPT ![r] = "responded"]

\* A call of getGitHubProfileImage or getMastodonProfileImage, up to its
\* await: the URL is built and fetch is called; a throw while building the
\* URL is caught by the strategy's try.
StartStrategy(r, strategy, prefix, username) ==
    LET url == templateLiteral(prefix, username)
    IN  /\ ran' = [ran EXCEPT ![r] = Append(@, strategy)]
        /\ IF url.thrown
           THEN /\ settled' = [settled EXCEPT ![r] = tryCatch(Throw)]
                /\ pc' = [pc EXCEPT ![r] = "resuming"]
                /\ UNCHANGED calls
           ELSE /\ calls' = [calls EXCEPT ![r] = Append(@, url.s)]
                /\ pc' = [pc EXCEPT ![r] = "fetching"]
                /\ UNCHANGED settled
        /\ UNCHANGED <<photo, resp>>

\* case "gravatar": photo = getGravatarImage(identifier), then the rest of
\* the handler, all in the same run.
RunGravatar(r, identifier) ==
    LET c == getGravatarImage(identifier)
    IN  /\ ran' = [ran EXCEPT ![r] = Append(@, "gravatar")]
        /\ IF c.thrown
           THEN /\ pc' = [pc EXCEPT ![r] = "faulted"]
                /\ UNCHANGED <<photo, resp>>
           ELSE /\ photo' = [photo EXCEPT ![r] = c.value]
                /\ Send(r, Finalization(c.value))
        /\ UNCHANGED <<settled, calls>>

\* The handler from its start to its first await or to its return.
Post(r) ==
    /\ pc[r] = "received"
    /\ LET account_type == req[r].account_type
           identifier == req[r].identifier
       IN  IF MissingFields(account_type, identifier)
           THEN /\ Send(r, Bad(MsgMissing))
                /\ UNCHANGED <<settled, photo, calls, ran>>
           ELSE IF ~includes(accountTypes, account_type)
           THEN /\ Send(r, Bad(MsgInvalid))
                /\ UNCHANGED <<settled, photo, calls, ran>>
           ELSE IF account_type = JStr(github)
           THEN StartStrategy(r, "github", GitHubUrlPrefix, identifier)
           ELSE IF account_type = JStr(gravatar)
           THEN RunGravatar(r, identifier)
           ELSE IF account_type = JStr(mastodon)
           THEN StartStrategy(r, "mastodon", MastodonUrlPrefix, identifier)
           ELSE \* no case matches: photo stays null
                /\ Send(r, Finalization(photo[r]))
                /\ UNCHANGED <<settled, photo, calls, ran>>
    /\ UNCHANGED <<accountTypes, req, provider>>

\* The promise of fetch settles: it rejects (caught), or it resolves and
\* res.json() starts reading the body.
FetchSettled(r) ==
    /\ pc[r] = "fetching"
    /\ provider[r].k # "hang"
    /\ IF provider[r].k = "reject"
       THEN /\ settled' = [settled EXCEPT ![r] = tryCatch(Throw)]
            /\ pc' = [pc EXCEPT ![r] = "resuming"]
       ELSE /\ pc' = [pc EXCEPT ![r] = "parsing"]
            /\ UNCHANGED settled
    /\ UNCHANGED <<accountTypes, req, provider, photo, resp, calls, ran>>

\* res.json() settles: it rejects on a body that is not JSON (caught), or the
\* data callback runs on the payload.
JsonParsed(r) ==
    /\ pc[r] = "parsing"
    /\ settled' = [settled EXCEPT ![r] =
            tryCatch(IF provider[r].k = "notjson"
                     THEN Throw
                     ELSE thenData(provider[r].data,
                                   ExpectedField(ran[r][Len(ran[r])])))]
    /\ pc' = [pc EXCEPT ![r] = "resuming"]
    /\ UNCHANGED <<accountTypes, req, provider, photo, resp, calls, ran>>

\* The handler resumes after its await: photo is assigned and the response
\* is sent; a rejected strategy promise would rethrow out of the handler.
Resume(r) ==
    /\ pc[r] = "resuming"
    /\ IF settled[r].thrown
       THEN /\ pc' = [pc EXCEPT ![r] = "faulted"]
            /\ UNCHANGED <<photo, resp>>
       ELSE /\ photo' = [photo EXCEPT ![r] = settled[r].value]
            /\ Send(r, Finalization(settled[r].value))
    /\ UNCHANGED <<accountTypes, req, provider, settled, calls, ran>>

Next ==
    \/ \E r \in Requests : Post(r)
    \/ \E r \in Requests : FetchSettled(r)
    \/ \E r \in Requests : JsonParsed(r)
    \/ \E r \in Requests : Resume(r)

Spec == Init /\ [][Next]_vars
ConcSpec == InitConc /\ [][Next]_vars

\* The event loop runs every continuation that is ready; a provider that
\* answers is eventually heard.  Nothing obliges a hanging call to settle.
Fairness ==
    \A r \in 1..NumRequests :
        /\ WF_vars(Post(r))
        /\ WF_vars(FetchSettled(r))
        /\ WF_vars(JsonParsed(r))
        /\ WF_vars(Resume(r))
FairConcSpec == InitConc /\ [][Next]_vars /\ Fairness

(***************************************************************************)
(* Vocabulary of the properties, stated apart from the handler's code.     *)
(***************************************************************************)
\* A field that is absent, or present with an empty or falsy value.
Lacks(v) == v \in {Absent, JNull, JStr(<<>>), JNum(0), JBool(FALSE)}

SupportedTypes == {JStr(github), JStr(gravatar), JStr(mastodon)}

\* A request that passes both validations.
Valid(r) ==
    /\ ~Lacks(req[r].account_type)
    /\ ~Lacks(req[r].identifier)
    /\ req[r].account_type \in SupportedTypes

IsType(r, name) == req[r].account_type = JStr(name)

\* The avatar field of the provider a valid network request goes to.
AvatarKey(r) == IF IsType(r, github) THEN "avatar_url" ELSE "avatar"

Response400(message) ==
    [status |-> 400, success |-> FALSE, message |-> message, photo |-> Absent]
Response200(p) ==
    [status |-> 200, success |-> TRUE, message |-> "<no message key>", photo |-> p]

(***************************************************************************)
(* C1.  A request whose body lacks account_type or identifier (absent or   *)
(* falsy), whatever the other field holds, is answered 400 "Missing        *)
(* account_type or identifier", and no strategy is invoked.                *)
(***************************************************************************)
C1_MissingFieldsRejected ==
    \A r \in Requests :
        (pc[r] # "received"
            /\ (Lacks(req[r].account_type) \/ Lacks(req[r].identifier)))
        => /\ pc[r] = "responded"
           /\ resp[r] = <<Response400("Missing account_type or identifier")>>
           /\ ran[r] = <<>>
           /\ calls[r] = <<>>

\* An unrecognized account_type with a missing identifier has been answered.
C1_Witness ==
    \E r \in Requests :
        /\ pc[r] = "responded"
        /\ req[r].account_type = JStr(<<"b","l","u","e","s","k","y">>)
        /\ req[r].identifier = Absent

(***************************************************************************)
(* C2.  With both fields present and account_type not one of github,       *)
(* gravatar, mastodon (another string, another casing, a non-string), the  *)
(* answer is 400 "Invalid account_type"; no strategy runs and no outbound  *)
(* call is issued.                                                         *)
(***************************************************************************)
C2_InvalidTypeRejected ==
    \A r \in Requests :
        (pc[r] # "received"
            /\ ~Lacks(req[r].account_type)
            /\ ~Lacks(req[r].identifier)
            /\ req[r].account_type \notin SupportedTypes)
        => /\ pc[r] = "responded"
           /\ resp[r] = <<Response400("Invalid account_type")>>
           /\ ran[r] = <<>>
           /\ calls[r] = <<>>

\* The array ["github"] as account_type has been answered.
C2_Witness ==
    \E r \in Requests :
        /\ pc[r] = "responded"
        /\ req[r].account_type = JArr1(github)
        /\ ~Lacks(req[r].identifier)

(***************************************************************************)
(* C3.  For a valid github or mastodon request, when the outbound call     *)
(* fails, the reply is not JSON, or the payload lacks the expected avatar  *)
(* field (null and non-object payloads included), the strategy returns     *)
(* absence and the answer is 400 "Could not fetch the profile image"; no   *)
(* fault escapes the handler.                                              *)
(***************************************************************************)
FailingReply(rep, key) ==
    \/ rep.k \in {"reject", "notjson"}
    \/ rep.k = "json" /\ (rep.data.t # "obj" \/ rep.data[key] = Absent)

C3_FailureGivesCouldNotFetch ==
    \A r \in Requests :
        (Valid(r)
            /\ (IsType(r, github) \/ IsType(r, mastodon))
            /\ FailingReply(provider[r], AvatarKey(r)))
        => /\ pc[r] # "faulted"
           /\ pc[r] = "resuming" => settled[r] = Normal(JNull)
           /\ pc[r] = "responded" =>
                resp[r] = <<Response400("Could not fetch the profile image")>>

\* A github request whose provider answered the JSON null has been answered.
C3_Witness ==
    \E r \in Requests :
        /\ pc[r] = "responded"
        /\ Valid(r) /\ IsType(r, github)
        /\ calls[r] # <<>>
        /\ provider[r].k = "json" /\ provider[r].data.t = "null"

(***************************************************************************)
(* C4.  A gravatar request whose identifier passed the presence            *)
(* validation (any JSON value it accepts) is answered 200 with a photo     *)
(* URL; the strategy never yields absence and never raises a fault.        *)
(***************************************************************************)
C4_GravatarNeverFails ==
    \A r \in Requests :
        (pc[r] # "received" /\ Valid(r) /\ IsType(r, gravatar))
        => /\ pc[r] = "responded"
           /\ Len(resp[r]) = 1
           /\ resp[r][1].status = 200
           /\ resp[r][1].photo.t = "str"

(***************************************************************************)
(* C5.  For a string identifier the gravatar result is exactly             *)
(* "https://gravatar.com/avatar/" + H(lowercase(trim(identifier))) +       *)
(* "?s=400"; identifiers that differ only in surrounding white space or    *)
(* letter case resolve to the same URL.                                    *)
(***************************************************************************)
\* The letters of the identifiers in use, upper case then lower case.
CasePairs == {<<"A", "a">>}
IsUpper(c) == \E q \in CasePairs : q[1] = c
LowerOf(c) == IF IsUpper(c) THEN (CHOOSE q \in CasePairs : q[1] = c)[2] ELSE c
OtherCase(c) ==
    IF \E q \in CasePairs : q[1] = c THEN (CHOOSE q \in CasePairs : q[1] = c)[2]
    ELSE IF \E q \in CasePairs : q[2] = c THEN (CHOOSE q \in CasePairs : q[2] = c)[1]
    ELSE c

\* n is s without its surrounding spaces, every letter in lower case.
NormalFormOf(s, n) ==
    \E i \in 1..(Len(s) + 1) : \E j \in (i - 1)..Len(s) :
        /\ \A k \in 1..(i - 1) : s[k] = " "
        /\ \A k \in (j + 1)..Len(s) : s[k] = " "
        /\ i <= j => (s[i] # " " /\ s[j] # " ")
        /\ n = [k \in 1..(j - i + 1) |-> LowerOf(s[i + k - 1])]

\* The strings one step from s: a space more in front or behind, or the
\* case of one letter changed.  Strings that differ only in surrounding
\* white space or letter case are joined by a chain of such steps.
Neighbours(s) ==
    {<<" ">> \o s, s \o <<" ">>}
        \cup {[s EXCEPT ![i] = OtherCase(s[i])] : i \in 1..Len(s)}

GravatarUrlOf(n) ==
    <<"h","t","t","p","s",":","/","/","g","r","a","v","a","t","a","r",".","c","o","m","/","a","v","a","t","a","r","/">>
        \o sha256Hex(n) \o <<"?","s","=","4","0","0">>

C5_GravatarUrlOfNormalForm ==
    \A r \in Requests :
        (pc[r] # "received"
            /\ Valid(r) /\ IsType(r, gravatar)
            /\ req[r].identifier.t = "str")
        => /\ pc[r] = "responded"
           /\ \E n \in StringsUpTo(Len(req[r].identifier.s)) :
                /\ NormalFormOf(req[r].identifier.s, n)
                /\ resp[r] = <<Response200(JStr(GravatarUrlOf(n)))>>
           /\ \A t \in Neighbours(req[r].identifier.s) :
                getGravatarImage(JStr(t)) = Normal(resp[r][1].photo)

\* " A" (a space, then an upper-case letter) has been resolved.
C5_Witness ==
    \E r \in Requests :
        /\ pc[r] = "responded"
        /\ IsType(r, gravatar)
        /\ req[r].identifier = JStr(<<" ", "A">>)
        /\ resp[r][1].status = 200

(***************************************************************************)
(* C6.  For a valid github (mastodon) request whose provider reply is      *)
(* well-formed JSON containing avatar_url (avatar), the answer is 200 with *)
(* photo exactly that field's value; github never reads avatar and         *)
(* mastodon never reads avatar_url.                                        *)
(***************************************************************************)
\* As claimed: any value of the field, the empty and falsy ones included.
C6_FieldPresentGivesPhoto ==
    \A r \in Requests :
        (pc[r] = "responded"
            /\ Valid(r) /\ (IsType(r, github) \/ IsType(r, mastodon))
            /\ calls[r] # <<>>
            /\ provider[r].k = "json" /\ provider[r].data.t = "obj"
            /\ provider[r].data[AvatarKey(r)] # Absent)
        => resp[r] = <<Response200(provider[r].data[AvatarKey(r)])>>

\* As amended: the field's value is truthy (not null, "", 0 or false); and a
\* 200 always carries the own field of the provider, never the other one.
C6_TruthyFieldGivesPhoto ==
    \A r \in Requests :
        (Valid(r) /\ (IsType(r, github) \/ IsType(r, mastodon))
            /\ calls[r] # <<>>)
        => /\ (provider[r].k = "json" /\ provider[r].data.t = "obj"
                    /\ ~Lacks(provider[r].data[AvatarKey(r)]))
                => /\ pc[r] # "faulted"
                   /\ pc[r] = "responded" =>
                        resp[r] = <<Response200(provider[r].data[AvatarKey(r)])>>
           /\ (pc[r] = "responded" /\ resp[r][1].status = 200)
                => /\ provider[r].k = "json" /\ provider[r].data.t = "obj"
                   /\ resp[r][1].photo = provider[r].data[AvatarKey(r)]

\* A mastodon request whose provider sent avatar and no avatar_url was
\* answered 200.
C6_Witness ==
    \E r \in Requests :
        /\ pc[r] = "responded"
        /\ IsType(r, mastodon)
        /\ provider[r].k = "json" /\ provider[r].data.t = "obj"
        /\ provider[r].data.avatar = JStr(avatarUrl)
        /\ provider[r].data.avatar_url = Absent
        /\ resp[r] = <<Response200(JStr(avatarUrl))>>

(***************************************************************************)
(* C7.  Every response has one of four shapes: 200 with success = true, a  *)
(* photo that is a non-empty URL string and no message; or 400 with        *)
(* success = false, one of the three fixed messages and no photo.  At most *)
(* one response is sent per request.                                       *)
(***************************************************************************)
C7_FourShapes ==
    \A r \in Requests :
        /\ Len(resp[r]) <= 1
        /\ \A i \in 1..Len(resp[r]) :
            LET m == resp[r][i]
            IN  \/ /\ m.status = 200
                   /\ m.success = TRUE
                   /\ m.photo.t = "str" /\ m.photo.s # <<>>
                   /\ m.message = "<no message key>"
                \/ /\ m.status = 400
                   /\ m.success = FALSE
                   /\ m.message \in {"Missing account_type or identifier",
                                     "Invalid account_type",
                                     "Could not fetch the profile image"}
                   /\ m.photo = Absent

(***************************************************************************)
(* C8.  A strategy is selected only after both validations pass; exactly   *)
(* the strategy named by account_type runs, once; a github or mastodon     *)
(* request issues exactly one outbound call, a gravatar request or a       *)
(* rejected request none.                                                  *)
(***************************************************************************)
StrategyNameOf(r) ==
    IF IsType(r, github) THEN "github"
    ELSE IF IsType(r, gravatar) THEN "gravatar"
    ELSE "mastodon"

C8_OneStrategyOneCall ==
    \A r \in Requests :
        /\ ~Valid(r) => (ran[r] = <<>> /\ calls[r] = <<>>)
        /\ pc[r] = "received" => (ran[r] = <<>> /\ calls[r] = <<>>)
        /\ (Valid(r) /\ pc[r] # "received") =>
            /\ ran[r] = <<StrategyNameOf(r)>>
            /\ IsType(r, gravatar) => calls[r] = <<>>
            /\ ~IsType(r, gravatar) => Len(calls[r]) = 1

(***************************************************************************)
(* C9.  With several requests in flight, each response is determined by    *)
(* the request's own account_type, identifier and provider reply, and      *)
(* accountTypes is never modified; and if one request's provider call      *)
(* never settles, every other request whose own call settles (or that      *)
(* needs no call) still eventually receives its response.                  *)
(***************************************************************************)
OwnInputsDecide ==
    \A r1 \in Requests : \A r2 \in Requests :
        (pc[r1] = "responded" /\ pc[r2] = "responded"
            /\ req[r1] = req[r2] /\ provider[r1] = provider[r2])
        => resp[r1] = resp[r2]

C9_IndependentAndLive ==
    /\ []OwnInputsDecide
    /\ [][accountTypes' = accountTypes]_vars
    /\ \A r \in 1..NumRequests :
        (IsType(r, gravatar) \/ provider[r].k # "hang") ~> (resp[r] # <<>>)

(***************************************************************************)
(* C10.  The github call targets host api.github.com with path exactly     *)
(* /users/{identifier}, the identifier a single path segment; the mastodon *)
(* call targets host mastodon.social, path /api/v1/accounts/lookup, with   *)
(* the single query parameter acct equal to the identifier.  No content of *)
(* the identifier changes the path, the parameters or the host.            *)
(***************************************************************************)
C10_CallKeyedByIdentifier ==
    \A r \in Requests : \A i \in 1..Len(calls[r]) :
        req[r].identifier.t = "str" =>
            LET u == parseUrl(calls[r][i])
                id == req[r].identifier.s
            IN  IF IsType(r, github)
                THEN /\ u.host = <<"a","p","i",".","g","i","t","h","u","b",".","c","o","m">>
                     /\ u.path = << <<"u","s","e","r","s">>, id >>
                     /\ ~u.hasQuery
                     /\ ~u.hasFragment
                ELSE /\ u.host = <<"m","a","s","t","o","d","o","n",".","s","o","c","i","a","l">>
                     /\ u.path = << <<"a","p","i">>, <<"v","1">>,
                                    <<"a","c","c","o","u","n","t","s">>,
                                    <<"l","o","o","k","u","p">> >>
                     /\ u.hasQuery
                     /\ u.params = << [name |-> <<"a","c","c","t">>, value |-> id] >>
                     /\ ~u.hasFragment

=============================================================================
